---------------------------- MODULE Spec2Model ----------------------------
(***************************************************************************)
(* A model of the two leaf components of the repository:                   *)
(*                                                                         *)
(*   EarlyAllocator  arceos/modules/bump_allocator/src/lib.rs              *)
(*   HashMap         arceos/ulib/axstd/src/collections.rs                  *)
(*                                                                         *)
(* The allocator is checked under AllocSpec, the map under MapSpec.  The   *)
(* two components share no state; each specification holds the other       *)
(* component at its constructor value.                                     *)
(***************************************************************************)
EXTENDS Integers, Naturals, Sequences, FiniteSets, TLC

VARIABLES
    \* ---- EarlyAllocator (lib.rs:19-24)
    start, end, b_pos, p_pos,
    \* the build: TRUE when integer overflow panics (debug, overflow-checks on),
    \* FALSE when `+` wraps (release).  checked_add().unwrap() panics in both.
    overflow_checks,
    \* TRUE once a panic (unwrap on None, overflow, todo!()) has stopped the kernel
    halted,
    \* ---- history of the allocator calls (not program state)
    blocks,      \* blocks returned by alloc since the last init, in allocation order
    last,        \* the last allocator call: its arguments, result and the fields before it
    init_ok,     \* the last init (if any) had start+size representable
    only_allocs, \* no add_memory and no dealloc since the last init
    proper,      \* since the last init every dealloc freed a live block with its own layout
                 \* and add_memory was not called
    init_args,   \* <<start, size>> of the last init, <<>> before any
    \* ---- HashMap (collections.rs:23-27)
    buckets, len, seed,
    \* ---- history of the map calls (not program state)
    ref,         \* reference map: key -> latest value inserted, NoValue if never inserted
    ncalls,      \* number of insert calls so far
    nupdates,    \* number of insert calls whose key was already present
    mlast        \* the last insert call

avars == <<start, end, b_pos, p_pos, overflow_checks, halted,
           blocks, last, init_ok, only_allocs, proper, init_args>>
mvars == <<buckets, len, seed, ref, ncalls, nupdates, mlast>>
vars  == <<avars, mvars>>

----------------------------------------------------------------------------
(* Machine integers.  usize is modelled AddrBits wide. *)

AddrBits == 16

RECURSIVE Pow2(_)
Pow2(n) == IF n = 0 THEN 1 ELSE 2 * Pow2(n - 1)

Top      == Pow2(AddrBits)        \* 2^w: one past usize::MAX
UsizeMax == Top - 1
IsizeMax == Pow2(AddrBits - 1) - 1

\* usize::checked_add: <<TRUE, sum>> or <<FALSE, 0>> (None)
checked_add(a, b) == IF a + b > UsizeMax THEN <<FALSE, 0>> ELSE <<TRUE, a + b>>

\* a + b as the release build computes it
wrapping_add(a, b) == (a + b) % Top

\* a - b as the release build computes it
wrapping_sub(a, b) == (a - b + Top) % Top

\* bitwise AND of two w-bit values, bit by bit
RECURSIVE BitAnd(_, _, _)
BitAnd(a, b, n) ==
    IF n = 0 THEN 0
    ELSE (IF a % 2 = 1 /\ b % 2 = 1 THEN 1 ELSE 0) + 2 * BitAnd(a \div 2, b \div 2, n - 1)

\* !x on usize
BitNot(x) == UsizeMax - x


----------------------------------------------------------------------------
(* EarlyAllocator: the operations as functions of the fields.  Each returns *)
(* [self: the fields after the call, ret: the result, addr: the address    *)
(* returned by a successful alloc].  ret = "Abort" is a panic.             *)

Self == [start |-> start, end |-> end, b_pos |-> b_pos, p_pos |-> p_pos]

Res(self, ret, addr) == [self |-> self, ret |-> ret, addr |-> addr]

\* EarlyAllocator::new
new == [start |-> 0, end |-> 0, b_pos |-> 0, p_pos |-> 0]

\* init that leaves the byte cursor where it was
init_keep_cursor(self, s, size, oc) ==
    IF s + size > UsizeMax /\ oc
    THEN Res([self EXCEPT !.start = s], "Abort", 0)
    ELSE Res([start |-> s,
              end   |-> wrapping_add(s, size),
              b_pos |-> self.b_pos,
              p_pos |-> wrapping_add(s, size)], "Ok", 0)

\* BaseAllocator::init.  `start + size` is a plain `+`: it panics at line 40,
\* after line 39 has stored start, when overflow checks are on, and wraps otherwise.
init(self, s, size, oc) ==
    IF s + size > UsizeMax /\ oc
    THEN Res([self EXCEPT !.start = s], "Abort", 0)
    ELSE Res([start |-> s,
              end   |-> wrapping_add(s, size),
              b_pos |-> s,
              p_pos |-> wrapping_add(s, size)], "Ok", 0)

\* add_memory that restarts the byte cursor at the new start when it extends the
\* region downward
add_memory_back_reset(self, s, size) ==
    IF size = 0 THEN Res(self, "InvalidParam", 0)
    ELSE LET e == checked_add(s, size) IN
         IF ~e[1] THEN Res(self, "Abort", 0)
         ELSE IF s >= self.start /\ e[2] <= self.end THEN Res(self, "MemoryOverlap", 0)
         ELSE IF s = self.end
              THEN Res([self EXCEPT !.end = e[2], !.p_pos = e[2]], "Ok", 0)
         ELSE IF e[2] = self.start
              THEN Res([self EXCEPT !.start = s, !.b_pos = s], "Ok", 0)
         ELSE Res(self, "InvalidParam", 0)

\* add_memory that moves end but not the page cursor when it extends the region
\* upward
add_memory_no_ppos(self, s, size) ==
    IF size = 0 THEN Res(self, "InvalidParam", 0)
    ELSE LET e == checked_add(s, size) IN
         IF ~e[1] THEN Res(self, "Abort", 0)
         ELSE IF s >= self.start /\ e[2] <= self.end THEN Res(self, "MemoryOverlap", 0)
         ELSE IF s = self.end
              THEN Res([self EXCEPT !.end = e[2]], "Ok", 0)
         ELSE IF e[2] = self.start
              THEN Res([self EXCEPT !.start = s,
                                    !.b_pos = IF self.b_pos < s THEN s ELSE self.b_pos],
                       "Ok", 0)
         ELSE Res(self, "InvalidParam", 0)

\* add_memory with the containment test written `start > self.start`
add_memory_strict(self, s, size) ==
    IF size = 0 THEN Res(self, "InvalidParam", 0)
    ELSE LET e == checked_add(s, size) IN
         IF ~e[1] THEN Res(self, "Abort", 0)
         ELSE IF s > self.start /\ e[2] <= self.end THEN Res(self, "MemoryOverlap", 0)
         ELSE IF s = self.end
              THEN Res([self EXCEPT !.end = e[2], !.p_pos = e[2]], "Ok", 0)
         ELSE IF e[2] = self.start
              THEN Res([self EXCEPT !.start = s,
                                    !.b_pos = IF self.b_pos < s THEN s ELSE self.b_pos],
                       "Ok", 0)
         ELSE Res(self, "InvalidParam", 0)

\* BaseAllocator::add_memory
add_memory(self, s, size) ==
    IF size = 0 THEN Res(self, "InvalidParam", 0)
    ELSE LET e == checked_add(s, size) IN
         IF ~e[1] THEN Res(self, "Abort", 0)
         ELSE IF s >= self.start /\ e[2] <= self.end THEN Res(self, "MemoryOverlap", 0)
         ELSE IF s = self.end
              THEN Res([self EXCEPT !.end = e[2], !.p_pos = e[2]], "Ok", 0)
         ELSE IF e[2] = self.start
              THEN Res([self EXCEPT !.start = s,
                                    !.b_pos = IF self.b_pos < s THEN s ELSE self.b_pos],
                       "Ok", 0)
         ELSE Res(self, "InvalidParam", 0)

\* align_up that leaves the cursor where it is
align_up_none(b, align, oc) == <<TRUE, b>>

\* lines 79-80: (self.b_pos + align_mask) & !align_mask.  <<FALSE, 0>> is the
\* overflow panic of the `+` when overflow checks are on.
align_up(b, align, oc) ==
    LET align_mask == align - 1 IN
    IF b + align_mask > UsizeMax /\ oc THEN <<FALSE, 0>>
    ELSE <<TRUE, BitAnd(wrapping_add(b, align_mask), BitNot(align_mask), AddrBits)>>

\* alloc with the capacity test written `new_b_pos >= self.p_pos`
alloc_ge(self, size, align, oc) ==
    LET a == align_up(self.b_pos, align, oc) IN
    IF ~a[1] THEN Res(self, "Abort", 0)
    ELSE LET aligned   == a[2]
             new_b_pos == checked_add(aligned, size) IN
         IF ~new_b_pos[1] THEN Res(self, "Abort", 0)
         ELSE IF new_b_pos[2] >= self.p_pos THEN Res(self, "NoMemory", 0)
         ELSE IF aligned = 0 THEN Res(self, "InvalidParam", 0)
         ELSE Res([self EXCEPT !.b_pos = new_b_pos[2]], "Ok", aligned)

\* ByteAllocator::alloc
alloc(self, size, align, oc) ==
    LET a == align_up(self.b_pos, align, oc) IN
    IF ~a[1] THEN Res(self, "Abort", 0)
    ELSE LET aligned   == a[2]
             new_b_pos == checked_add(aligned, size) IN
         IF ~new_b_pos[1] THEN Res(self, "Abort", 0)
         ELSE IF new_b_pos[2] > self.p_pos THEN Res(self, "NoMemory", 0)
         ELSE IF aligned = 0 THEN Res(self, "InvalidParam", 0)
         ELSE Res([self EXCEPT !.b_pos = new_b_pos[2]], "Ok", aligned)

\* dealloc without the test that the freed range lies in the region
dealloc_no_range(self, addr, layout_size) ==
    LET size     == IF layout_size = 0 THEN 1 ELSE layout_size
        end_addr == checked_add(addr, size) IN
    IF end_addr[1] /\ end_addr[2] = self.b_pos
    THEN Res([self EXCEPT !.b_pos = addr], "Ok", 0)
    ELSE Res(self, "Ok", 0)

\* dealloc that never moves the cursor back
dealloc_leak(self, addr, layout_size) == Res(self, "Ok", 0)

\* ByteAllocator::dealloc (addr is a NonNull pointer: addr # 0)
dealloc(self, addr, layout_size) ==
    LET size     == IF layout_size = 0 THEN 1 ELSE layout_size
        end_addr == checked_add(addr, size) IN
    IF end_addr[1] /\ end_addr[2] = self.b_pos
       /\ addr >= self.start /\ end_addr[2] <= self.end
    THEN Res([self EXCEPT !.b_pos = addr], "Ok", 0)
    ELSE Res(self, "Ok", 0)

\* ByteAllocator::total_bytes / used_bytes / available_bytes.  The value is the
\* one both builds return when the subtraction does not underflow.
total_bytes(self)     == wrapping_sub(self.end, self.start)
used_bytes(self)      == wrapping_sub(self.b_pos, self.start)
available_bytes(self) == wrapping_sub(self.p_pos, self.b_pos)


----------------------------------------------------------------------------
(* HashMap: the operations as functions of the map [buckets, len, seed].   *)
(* A slot is None or Some(<<key, value>>); slot idx of the code (0-based)  *)
(* is buckets[idx + 1].                                                    *)

None    == <<>>
Some(x) == <<x>>

NumKeys == 16                \* keys are 0 .. NumKeys-1
Keys    == 0..(NumKeys - 1)
Seeds   == 0..5

\* SipHasher::new_with_keys(seed, 0xdeadbeef) fed the key, then finish(): library
\* code, some function of (seed, key).  Six such functions, picked by the seed:
\* one without collisions, one where all keys collide, one whose home slots lie at
\* the end of the table (probes wrap around, and split over two slots after a
\* growth), one that scatters the keys over a few shared home slots, one whose
\* home slots descend as the keys ascend, and one where keys collide in pairs
\* whose probe chains run into each other.
SipHash(s, key) ==
    CASE s = 0 -> key
      [] s = 1 -> 0
      [] s = 2 -> 16 * key + 15
      [] s = 3 -> 5 * key * key + 3
      [] s = 4 -> 77 - 2 * key
      [] OTHER -> 3 * (key \div 2) + 32 * (key % 3)

\* index_for_seed
index_for_seed(s, key, cap) == SipHash(s, key) % cap

InitialCap == 16

Map == [buckets |-> buckets, len |-> len, seed |-> seed]

\* HashMap::new, with the seed random() returned
HashMap_new(s) == [buckets |-> [i \in 1..InitialCap |-> None], len |-> 0, seed |-> s]

\* HashMap::hash
hash(m, key) == index_for_seed(m.seed, key, Len(m.buckets))

\* The probe loops.  n counts the slots visited; a loop that has visited every slot
\* without reaching its exit never ends: the result is Hang.
Hang == 0 - 1

\* grow, lines 67-78: the slot the moved bucket is put in
RECURSIVE grow_probe(_, _, _)
grow_probe(new_buckets, idx, n) ==
    IF n >= Len(new_buckets) THEN Hang
    ELSE IF new_buckets[idx + 1] = None THEN idx
    ELSE grow_probe(new_buckets, (idx + 1) % Len(new_buckets), n + 1)

\* grow, lines 64-80: the buckets from slot i on are moved, in slot order
RECURSIVE grow_move(_, _, _, _)
grow_move(old, i, new_buckets, s) ==
    IF i > Len(old) \/ new_buckets = None THEN new_buckets
    ELSE IF old[i] = None THEN grow_move(old, i + 1, new_buckets, s)
    ELSE LET idx == grow_probe(new_buckets,
                               index_for_seed(s, old[i][1][1], Len(new_buckets)), 0) IN
         IF idx = Hang THEN None
         ELSE grow_move(old, i + 1, [new_buckets EXCEPT ![idx + 1] = old[i]], s)

\* grow that copies every bucket to the slot index it had
grow_same_slot(m) ==
    LET old_cap == Len(m.buckets)
        new_cap == IF old_cap * 2 > UsizeMax THEN old_cap + 1 ELSE old_cap * 2 IN
    [m EXCEPT !.buckets = [i \in 1..new_cap |-> IF i <= old_cap THEN m.buckets[i] ELSE None]]

\* grow that adds one slot instead of doubling
grow_plus_one(m) ==
    LET old_cap == Len(m.buckets)
        new_cap == old_cap + 1 IN
    [m EXCEPT !.buckets = grow_move(m.buckets, 1, [i \in 1..new_cap |-> None], m.seed)]

\* HashMap::grow.  buckets = None stands for a re-insertion loop that never ends.
grow(m) ==
    LET old_cap == Len(m.buckets)
        new_cap == IF old_cap * 2 > UsizeMax THEN old_cap + 1 ELSE old_cap * 2 IN
    [m EXCEPT !.buckets = grow_move(m.buckets, 1, [i \in 1..new_cap |-> None], m.seed)]

\* a load test that never asks for a growth
needs_grow_never(count, cap) == FALSE

\* a load test that asks for a growth only once every slot is occupied
needs_grow_full(count, cap) == count >= cap

\* the load test written for the count after the insert
needs_grow_after(count, cap) == (count + 1) * 100 >= cap * 70

\* insert, line 87
needs_grow(count, cap) == count * 100 >= cap * 70

\* an insert probe that stops at the first empty slot and never compares keys
RECURSIVE insert_probe_first_empty(_, _, _, _)
insert_probe_first_empty(b, key, idx, n) ==
    IF n >= Len(b) THEN Hang
    ELSE IF b[idx + 1] = None THEN idx
    ELSE insert_probe_first_empty(b, key, (idx + 1) % Len(b), n + 1)

\* insert, lines 91-107: the slot where the probe ends (equal key or None)
RECURSIVE insert_probe(_, _, _, _)
insert_probe(b, key, idx, n) ==
    IF n >= Len(b) THEN Hang
    ELSE IF b[idx + 1] # None /\ b[idx + 1][1][1] = key THEN idx
    ELSE IF b[idx + 1] = None THEN idx
    ELSE insert_probe(b, key, (idx + 1) % Len(b), n + 1)

\* insert that adds 1 to len also when it replaces a value
insert_count_all(m, key, value) ==
    LET g   == IF needs_grow(m.len, Len(m.buckets)) THEN grow(m) ELSE m
        idx == insert_probe(g.buckets, key, hash(g, key), 0) IN
    [map |-> [g EXCEPT !.buckets[idx + 1] = Some(<<key, value>>), !.len = @ + 1],
     ret |-> "Ok", grew |-> needs_grow(m.len, Len(m.buckets))]

\* HashMap::insert: [map: the map after the call, ret: Ok or Hang, grew]
insert(m, key, value) ==
    LET grew == needs_grow(m.len, Len(m.buckets))
        g    == IF grew THEN grow(m) ELSE m IN
    IF g.buckets = None THEN [map |-> m, ret |-> "Hang", grew |-> grew]
    ELSE LET idx == insert_probe(g.buckets, key, hash(g, key), 0) IN
         IF idx = Hang THEN [map |-> g, ret |-> "Hang", grew |-> grew]
         ELSE IF g.buckets[idx + 1] # None
              THEN [map |-> [g EXCEPT !.buckets[idx + 1] = Some(<<key, value>>)],
                    ret |-> "Ok", grew |-> grew]
         ELSE [map |-> [g EXCEPT !.buckets[idx + 1] = Some(<<key, value>>),
                                 !.len = @ + 1],
               ret |-> "Ok", grew |-> grew]

\* the outcome of a get whose probe loop never ends (a sequence, like None and Some)
NoReturn == <<Hang, Hang>>

\* get, lines 112-121: Some(value), None, or NoReturn
RECURSIVE get_probe(_, _, _, _)
get_probe(b, key, idx, n) ==
    IF n >= Len(b) THEN NoReturn
    ELSE IF b[idx + 1] # None /\ b[idx + 1][1][1] = key THEN Some(b[idx + 1][1][2])
    ELSE IF b[idx + 1] = None THEN None
    ELSE get_probe(b, key, (idx + 1) % Len(b), n + 1)

\* HashMap::get
get(m, key) == get_probe(m.buckets, key, hash(m, key), 0)

\* HashMap::len
map_len(m) == m.len

\* HashMap::iter
iter(m) == [buckets |-> m.buckets, idx |-> 0]

\* Iter::next that steps over the slot after each bucket it yields
RECURSIVE Iter_next_skip(_)
Iter_next_skip(it) ==
    IF it.idx < Len(it.buckets)
    THEN IF it.buckets[it.idx + 1] # None
         THEN [item |-> it.buckets[it.idx + 1], it |-> [it EXCEPT !.idx = @ + 2]]
         ELSE Iter_next_skip([it EXCEPT !.idx = @ + 1])
    ELSE [item |-> None, it |-> it]

\* Iter::next: [item: Some(<<key, value>>) or None, it: the iterator after the call]
RECURSIVE Iter_next(_)
Iter_next(it) ==
    IF it.idx < Len(it.buckets)
    THEN IF it.buckets[it.idx + 1] # None
         THEN [item |-> it.buckets[it.idx + 1], it |-> [it EXCEPT !.idx = @ + 1]]
         ELSE Iter_next([it EXCEPT !.idx = @ + 1])
    ELSE [item |-> None, it |-> it]

\* next() called until it returns None: the pairs yielded, in order
RECURSIVE IterRun(_)
IterRun(it) ==
    LET r == Iter_next(it) IN
    IF r.item = None THEN <<>> ELSE <<r.item[1]>> \o IterRun(r.it)


----------------------------------------------------------------------------
(* The calls the environment makes on the allocator, and their arguments. *)

MaxBlocks == 2      \* alloc is called while fewer blocks than this were returned since init

\* core::alloc::Layout: align a power of two, size + (align - 1) <= isize::MAX
\* as <<size, align>>
Layouts == { <<0, 1>>, <<1, 1>>, <<1, 8>>, <<8, 8>>, <<IsizeMax - 7, 8>> }

\* init(start, size): the region of the example, a small region, a region at 0, a
\* region ending at usize::MAX, and one whose start+size is not representable
InitArgs == { <<4096, 256>>, <<16, 16>>, <<0, 16>>, <<Top - 8, 7>>, <<Top - 8, 24>> }

\* add_memory(start, size): ranges of size 0, inside, before, after, across an edge
\* of and around the regions above, and one whose end is not representable
AddArgs == { <<32, 0>>, <<24, 8>>, <<0, 16>>, <<32, 16>>, <<24, 16>>, <<0, 64>>,
             <<64, 8>>, <<Top - 16, 16>> }

\* dealloc(addr, size) of addresses that no alloc returned, and the size passed
\* to dealloc with a block that was freed before or has another size (dealloc does
\* not read the alignment)
RawArgs  == { <<8, 8>>, <<Top - 1, 1>> }
RawSizes == {1}

NoBlock == [addr |-> 0, size |-> 0, align |-> 1, pre_b |-> 0, pre_used |-> 0,
            live |-> FALSE, lifo |-> FALSE, clean |-> FALSE]

Last(op, ret, addr, arg, pre, blk, top) ==
    [op |-> op, ret |-> ret, addr |-> addr, arg |-> arg, pre |-> pre, blk |-> blk, top |-> top]

SetSelf(self) ==
    /\ start' = self.start
    /\ end'   = self.end
    /\ b_pos' = self.b_pos
    /\ p_pos' = self.p_pos

LiveIdx == {i \in 1..Len(blocks) : blocks[i].live}

\* the most recently allocated block that is still live (0 if none)
TopIdx == IF LiveIdx = {} THEN 0 ELSE CHOOSE i \in LiveIdx : \A j \in LiveIdx : j <= i

\* a call that is no part of a strictly nested alloc/dealloc pairing
BreakLifo(bs) == [i \in 1..Len(bs) |-> [bs[i] EXCEPT !.lifo = FALSE]]

\* the history of a map no insert was called on
NoRef    == [k \in Keys |-> 0]
NoInsert == [key |-> 0, value |-> 0, ret |-> "new", grew |-> FALSE, present |-> FALSE,
             pre_len |-> 0, pre_cap |-> 0]

AllocInit ==
    /\ start = new.start /\ end = new.end /\ b_pos = new.b_pos /\ p_pos = new.p_pos
    /\ overflow_checks \in BOOLEAN
    /\ halted = FALSE
    /\ blocks = <<>>
    /\ last = Last("new", "Ok", 0, <<>>, new, NoBlock, FALSE)
    /\ init_ok = TRUE
    /\ only_allocs = TRUE
    /\ proper = TRUE
    /\ init_args = <<>>
    /\ buckets = HashMap_new(0).buckets /\ len = 0 /\ seed = 0
    /\ ref = NoRef /\ ncalls = 0 /\ nupdates = 0 /\ mlast = NoInsert

DoInit(s, size) ==
    LET r == init(Self, s, size, overflow_checks) IN
    /\ ~halted
    /\ SetSelf(r.self)
    /\ halted' = (r.ret = "Abort")
    /\ blocks' = <<>>
    /\ last' = Last("init", r.ret, 0, <<s, size>>, Self, NoBlock, FALSE)
    /\ init_ok' = (s + size <= UsizeMax)
    /\ only_allocs' = TRUE
    /\ proper' = TRUE
    /\ init_args' = <<s, size>>
    /\ UNCHANGED <<overflow_checks, mvars>>

DoAddMemory(s, size) ==
    LET r == add_memory(Self, s, size) IN
    /\ ~halted
    /\ SetSelf(r.self)
    /\ halted' = (r.ret = "Abort")
    /\ blocks' = BreakLifo(blocks)
    /\ last' = Last("add_memory", r.ret, 0, <<s, size>>, Self, NoBlock, FALSE)
    /\ only_allocs' = FALSE
    /\ proper' = FALSE
    /\ UNCHANGED <<overflow_checks, init_ok, init_args, mvars>>

DoAlloc(size, align) ==
    LET r == alloc(Self, size, align, overflow_checks)
        padded == r.addr # b_pos
        blk == [addr |-> r.addr, size |-> size, align |-> align, pre_b |-> b_pos,
                pre_used |-> used_bytes(Self), live |-> TRUE, lifo |-> TRUE,
                clean |-> ~padded]
    IN
    /\ ~halted
    /\ Len(blocks) < MaxBlocks
    /\ SetSelf(r.self)
    /\ halted' = (r.ret = "Abort")
    /\ blocks' = IF r.ret # "Ok" THEN blocks
                 ELSE Append([i \in 1..Len(blocks) |->
                                 [blocks[i] EXCEPT !.clean = @ /\ ~padded]], blk)
    /\ last' = Last("alloc", r.ret, r.addr, <<size, align>>, Self, NoBlock, FALSE)
    /\ UNCHANGED <<overflow_checks, init_ok, only_allocs, proper, init_args, mvars>>

\* dealloc of a live block returned by alloc, with the layout it was allocated with
DoDeallocBlock(i) ==
    LET r == dealloc(Self, blocks[i].addr, blocks[i].size)
        freed == [blocks EXCEPT ![i].live = FALSE]
    IN
    /\ ~halted
    /\ blocks[i].live
    /\ SetSelf(r.self)
    /\ blocks' = IF i = TopIdx THEN freed ELSE BreakLifo(freed)
    /\ last' = Last("dealloc", r.ret, 0, <<blocks[i].addr, blocks[i].size, blocks[i].align>>,
                    Self, blocks[i], i = TopIdx)
    /\ only_allocs' = FALSE
    /\ UNCHANGED <<overflow_checks, halted, init_ok, proper, init_args, mvars>>

\* dealloc of anything else: an address no alloc returned, a block already freed,
\* or a block with another layout
DoDeallocRaw(addr, size) ==
    LET r == dealloc(Self, addr, size) IN
    /\ ~halted
    /\ addr # 0
    /\ ~\E i \in LiveIdx : blocks[i].addr = addr /\ blocks[i].size = size
    /\ SetSelf(r.self)
    /\ blocks' = BreakLifo(blocks)
    /\ last' = Last("dealloc_raw", r.ret, 0, <<addr, size, 1>>, Self, NoBlock, FALSE)
    /\ only_allocs' = FALSE
    /\ proper' = FALSE
    /\ UNCHANGED <<overflow_checks, halted, init_ok, init_args, mvars>>

\* PageAllocator::alloc_pages, dealloc_pages, total_pages, used_pages,
\* available_pages: todo!()
DoPageOp ==
    /\ ~halted
    /\ halted' = TRUE
    /\ last' = Last("page_op", "Abort", 0, <<>>, Self, NoBlock, FALSE)
    /\ UNCHANGED <<start, end, b_pos, p_pos, overflow_checks, blocks, init_ok,
                   only_allocs, proper, init_args, mvars>>

AllocNext ==
    \/ \E a \in InitArgs : DoInit(a[1], a[2])
    \/ \E a \in AddArgs : DoAddMemory(a[1], a[2])
    \/ \E l \in Layouts : DoAlloc(l[1], l[2])
    \/ \E i \in 1..Len(blocks) : DoDeallocBlock(i)
    \/ \E a \in RawArgs \cup ({blocks[i].addr : i \in 1..Len(blocks)} \X RawSizes) :
          DoDeallocRaw(a[1], a[2])
    \/ DoPageOp

AllocSpec == AllocInit /\ [][AllocNext]_vars


----------------------------------------------------------------------------
(* The calls the environment makes on the map.  Keys are first inserted in *)
(* ascending order; a key already present may be inserted again.  Each     *)
(* call stores its own ordinal as the value, so the latest insert of a key *)
(* differs from every earlier one.                                         *)

MaxUpdates == 1     \* inserts of a key already present
UpdateKeys == {k \in Keys : k % 5 = 0}     \* the keys inserted again

MapInit ==
    /\ seed \in Seeds
    /\ buckets = HashMap_new(seed).buckets
    /\ len = HashMap_new(seed).len
    /\ ref = NoRef /\ ncalls = 0 /\ nupdates = 0 /\ mlast = NoInsert
    /\ start = new.start /\ end = new.end /\ b_pos = new.b_pos /\ p_pos = new.p_pos
    /\ overflow_checks = FALSE /\ halted = FALSE /\ blocks = <<>>
    /\ last = Last("new", "Ok", 0, <<>>, new, NoBlock, FALSE)
    /\ init_ok = TRUE /\ only_allocs = TRUE /\ proper = TRUE /\ init_args = <<>>

NumInserted == Cardinality({k \in Keys : ref[k] # 0})

DoInsert(key, value) ==
    LET r == insert(Map, key, value) IN
    /\ mlast.ret # "Hang"
    /\ \/ ref[key] = 0 /\ key = NumInserted
       \/ ref[key] # 0 /\ key \in UpdateKeys /\ nupdates < MaxUpdates
    /\ buckets' = r.map.buckets
    /\ len' = r.map.len
    /\ ref' = IF r.ret = "Ok" THEN [ref EXCEPT ![key] = value] ELSE ref
    /\ ncalls' = ncalls + 1
    /\ nupdates' = IF ref[key] # 0 THEN nupdates + 1 ELSE nupdates
    /\ mlast' = [key |-> key, value |-> value, ret |-> r.ret, grew |-> r.grew,
                 present |-> ref[key] # 0, pre_len |-> len, pre_cap |-> Len(buckets)]
    /\ UNCHANGED <<seed, avars>>

MapNext == \E key \in Keys : DoInsert(key, ncalls + 1)

MapSpec == MapInit /\ [][MapNext]_vars


----------------------------------------------------------------------------
(* Properties of EarlyAllocator, checked under AllocSpec. *)

\* the least multiple of align that is >= b, over the unbounded integers
LeastMultipleGE(b, align) == ((b + align - 1) \div align) * align

\* the address range [a, a+n) of a block
BlockEnd(blk) == blk.addr + blk.size

\* C1: in every state reached from a representable init by any add_memory, alloc and
\* dealloc calls, start <= b_pos <= p_pos <= end.
C1_CursorOrder ==
    init_ok => (start <= b_pos /\ b_pos <= p_pos /\ p_pos <= end)

\* C1 witness: after a representable init the region was extended, a block is live
\* and a dealloc has just moved the byte cursor back.
C1_Witness ==
    /\ init_ok /\ init_args # <<>> /\ start # init_args[1]
    /\ last.op = "dealloc" /\ b_pos < last.pre.b_pos
    /\ start < b_pos /\ b_pos < p_pos

\* C2: while only alloc was called since init, the ranges [addr, addr+size) of the
\* blocks returned are pairwise disjoint, each lies in [start, end) and each addr is
\* a multiple of the alignment asked for.
C2_AllocDisjointAligned ==
    only_allocs =>
        /\ \A i \in 1..Len(blocks) :
              /\ start <= blocks[i].addr /\ BlockEnd(blocks[i]) <= end
              /\ blocks[i].addr % blocks[i].align = 0
        /\ \A i, j \in 1..Len(blocks) :
              i < j => \/ BlockEnd(blocks[i]) <= blocks[j].addr
                       \/ BlockEnd(blocks[j]) <= blocks[i].addr

\* C2 witness: two blocks of non-zero size, the second one aligned up past the cursor.
C2_Witness ==
    /\ only_allocs /\ Len(blocks) = 2
    /\ blocks[1].size > 0 /\ blocks[2].size > 0
    /\ blocks[2].addr > blocks[2].pre_b

\* the last call freed the most recently allocated live block, and every call since
\* that block's alloc was an alloc or the dealloc of a block allocated after it
LastIsLifoDealloc == last.op = "dealloc" /\ last.top /\ last.blk.lifo

C4_OutOfOrderDeallocNoOp ==
    (proper /\ last.op = "dealloc" /\ ~last.top) =>
        /\ b_pos = last.pre.b_pos
        /\ used_bytes(Self) = used_bytes(last.pre)

AllocPost(pre, size, align, aligned) ==
    IF aligned + size > pre.p_pos
    THEN last.ret = "NoMemory" /\ Self = pre
    ELSE aligned # 0 =>
            /\ last.ret = "Ok" /\ last.addr = aligned
            /\ Self = [pre EXCEPT !.b_pos = aligned + size]

\* init(0x1000, 0x100), alloc(8, 8), alloc(8, 8)
AllocExampleRun ==
    /\ only_allocs /\ init_args = <<4096, 256>> /\ Len(blocks) = 2
    /\ \A i \in 1..2 : blocks[i].size = 8 /\ blocks[i].align = 8

AllocExample ==
    AllocExampleRun =>
        blocks[1].addr = 4096 /\ blocks[2].addr = 4104 /\ used_bytes(Self) = 16

\* C5 as stated: alloc rounds b_pos up to the least multiple of align; NoMemory and
\* no change if aligned+size > p_pos; else (aligned # 0) returns aligned and sets
\* b_pos = aligned+size only.  After init(0x1000, 0x100) two alloc(8, 8) return
\* 0x1000 and 0x1008 and used_bytes() is 16.
C5_AllocResult ==
    /\ last.op = "alloc" =>
          AllocPost(last.pre, last.arg[1], last.arg[2],
                    LeastMultipleGE(last.pre.b_pos, last.arg[2]))
    /\ AllocExample

\* C5 amended: the same, for calls whose aligned+size is representable in usize.
C5_AllocResultRepresentable ==
    /\ (/\ last.op = "alloc"
        /\ LeastMultipleGE(last.pre.b_pos, last.arg[2]) + last.arg[1] <= UsizeMax) =>
          AllocPost(last.pre, last.arg[1], last.arg[2],
                    LeastMultipleGE(last.pre.b_pos, last.arg[2]))
    /\ AllocExample

\* C5 witness: the second alloc(8, 8) of the example has just returned.
C5_Witness ==
    AllocExampleRun /\ last.op = "alloc" /\ last.ret = "Ok" /\ last.addr = 4104

AddMemoryPost(pre, s, size) ==
    IF size = 0 THEN last.ret = "InvalidParam"
    ELSE IF pre.start <= s /\ s + size <= pre.end THEN last.ret = "MemoryOverlap"
    ELSE IF s = pre.end \/ s + size = pre.start
         THEN last.ret = "Ok" /\ total_bytes(Self) = total_bytes(pre) + size
    ELSE last.ret = "InvalidParam"

\* the last call was add_memory on an allocator initialized with a representable range
LastIsAddMemory == last.op = "add_memory" /\ init_args # <<>> /\ init_ok

\* C6 as stated: the result of add_memory(start, size) is InvalidParam for size 0,
\* MemoryOverlap for a range inside the region, Ok with total_bytes() grown by size
\* for a range adjacent on either side, InvalidParam for every other range.
C6_AddMemoryResult ==
    LastIsAddMemory => AddMemoryPost(last.pre, last.arg[1], last.arg[2])

\* C6 amended: the same, for ranges whose start+size is representable in usize.
C6_AddMemoryResultRepresentable ==
    (LastIsAddMemory /\ last.arg[1] + last.arg[2] <= UsizeMax) =>
        AddMemoryPost(last.pre, last.arg[1], last.arg[2])

\* C6 witness: add_memory has just extended the region backward.
C6_Witness ==
    LastIsAddMemory /\ last.ret = "Ok" /\ start < last.pre.start


----------------------------------------------------------------------------
(* Properties of HashMap, checked under MapSpec. *)

InsertedKeys == {k \in Keys : ref[k] # 0}

\* C7: after any inserts on a fresh map, growths included, get(k) is the value of the
\* latest insert of k for every key inserted, and not-found for every other key.
C7_GetMatchesReference ==
    \A k \in Keys : get(Map, k) = IF ref[k] = 0 THEN None ELSE Some(ref[k])

\* C7 witness: the table has grown, a key holds a value written by a later insert of
\* it, and some key was never inserted.
C7_Witness ==
    /\ Len(buckets) > InitialCap
    /\ \E k \in Keys : ref[k] # 0 /\ ref[k] # k + 1 /\ get(Map, k) = Some(ref[k])
    /\ \E k \in Keys : ref[k] = 0 /\ get(Map, k) = None

\* C8: len() is the number of distinct keys inserted; an insert of a key already
\* present leaves len() unchanged, also when it triggers a growth, and an insert of
\* a new key adds exactly 1.
C8_LenCountsDistinctKeys ==
    /\ map_len(Map) = Cardinality(InsertedKeys)
    /\ ncalls > 0 =>
          map_len(Map) = IF mlast.present THEN mlast.pre_len ELSE mlast.pre_len + 1

\* C8 witness: the last insert replaced the value of a key already present and grew
\* the table.
C8_Witness ==
    ncalls > 0 /\ mlast.present /\ mlast.grew /\ Len(buckets) > mlast.pre_cap

IterItems == IterRun(iter(Map))

\* C9: iter() run to completion yields exactly len() pairs, no key twice, and every
\* stored key once with its latest value.
C9_IterYieldsEachEntryOnce ==
    LET items == IterItems IN
    /\ Len(items) = map_len(Map)
    /\ \A i, j \in 1..Len(items) : i # j => items[i][1] # items[j][1]
    /\ {items[i] : i \in 1..Len(items)} = {<<k, ref[k]>> : k \in InsertedKeys}

\* C9 witness: iteration over a grown table with colliding keys and a replaced value.
C9_Witness ==
    /\ Len(buckets) > InitialCap /\ seed = 3 /\ nupdates > 0
    /\ Len(IterItems) = 13

\* exactly n insert calls were made, all with distinct keys
DistinctInserts(n) == ncalls = n /\ nupdates = 0

\* C10 as stated: inserting 12 distinct keys into a fresh map, the table (capacity
\* 16) grows to capacity 32 after the 11th insert; after all 12 inserts len() is 12
\* and all 12 keys are retrievable.
C10_GrowsAfterEleventh ==
    /\ (\E n \in 0..11 : DistinctInserts(n)) => Len(buckets) = 16
    /\ DistinctInserts(12) =>
          /\ Len(buckets) = 32
          /\ map_len(Map) = 12
          /\ \A k \in InsertedKeys : get(Map, k) # None

\* C10 amended: the 12 inserts do not grow the table (capacity stays 16); len() is 12
\* and all 12 keys are retrievable; the table grows to 32 in the 13th insert, the
\* first one entered with count 12.
C10_GrowsInThirteenth ==
    /\ (\E n \in 0..12 : DistinctInserts(n)) => Len(buckets) = 16
    /\ DistinctInserts(12) =>
          /\ map_len(Map) = 12
          /\ Cardinality(InsertedKeys) = 12
          /\ \A k \in InsertedKeys : get(Map, k) # None
    /\ DistinctInserts(13) => Len(buckets) = 32 /\ mlast.grew

\* C10 witness: 12 distinct keys were inserted into a fresh map and nothing else.
C10_Witness ==
    DistinctInserts(12) /\ map_len(Map) = 12 /\ mlast.key = 11

\* the slot indices (0-based, as in the code) that hold a bucket
Occupied(b) == {i \in 0..(Len(b) - 1) : b[i + 1] # None}

\* C11: in every state reached from new() by insert calls, the count is below the
\* capacity and equals the number of occupied slots, so the table always has at
\* least one empty slot.
C11_CountBelowCapacity ==
    /\ len < Len(buckets)
    /\ len = Cardinality(Occupied(buckets))
    /\ \E i \in 1..Len(buckets) : buckets[i] = None

\* C11 witness: the fullest table the load test lets exist, 12 buckets in 16 slots,
\* with home slots at the end of the table.
C11_Witness ==
    len = 12 /\ Len(buckets) = 16 /\ seed = 2 /\ Cardinality(Occupied(buckets)) = 12

\* a key that is never inserted
AbsentKey == NumKeys

\* C12: in every reachable state and for every key, get and insert terminate: the
\* probe reaches an equal key or an empty slot within capacity slots visited, and
\* the re-insertion loop of grow terminates.
C12_ProbesTerminate ==
    /\ mlast.ret # "Hang"
    /\ grow(Map).buckets # None
    /\ \A k \in Keys \cup {AbsentKey} :
          /\ get(Map, k) # NoReturn
          /\ insert(Map, k, ncalls + 1).ret # "Hang"

\* C12 witness: all keys share one home slot and the table is at its fullest; the
\* probe for an absent key walks over all 12 buckets before it meets an empty slot.
C12_Witness ==
    /\ seed = 1 /\ len = 12 /\ Len(buckets) = 16
    /\ get(Map, AbsentKey) = None
    /\ mlast.ret = "Ok" /\ mlast.key = 11

----------------------------------------------------------------------------
(* Further properties of EarlyAllocator, checked under AllocSpec. *)

LastIsInit == last.op = "init"

\* C13: for a representable (start, size), whatever the state before, right after
\* init(start, size) the fields are start, start+size, start, start+size, and
\* total_bytes() = size, used_bytes() = 0, available_bytes() = size.
C13_InitResets ==
    (LastIsInit /\ last.arg[1] + last.arg[2] <= UsizeMax) =>
        /\ last.ret = "Ok"
        /\ Self = [start |-> last.arg[1], end   |-> last.arg[1] + last.arg[2],
                   b_pos |-> last.arg[1], p_pos |-> last.arg[1] + last.arg[2]]
        /\ total_bytes(Self) = last.arg[2]
        /\ used_bytes(Self) = 0
        /\ available_bytes(Self) = last.arg[2]

\* C13 witness: init of a non-empty region on an allocator that was managing another
\* region with bytes allocated from it.
C13_Witness ==
    /\ LastIsInit /\ last.ret = "Ok" /\ last.arg[1] + last.arg[2] <= UsizeMax
    /\ last.arg[2] > 0 /\ last.pre.start # start
    /\ last.pre.b_pos > last.pre.start /\ last.pre.p_pos > last.pre.b_pos

LastIsAlloc == last.op = "alloc"

\* the allocation end the request asks for, over the unbounded integers: the least
\* multiple of align that is >= the byte cursor, plus size
AlignedEnd == LeastMultipleGE(last.pre.b_pos, last.arg[2]) + last.arg[1]

\* C14: overflow in a bound computation is a fatal abort, never a wrapped value:
\* add_memory with size > 0 and start+size >= 2^w aborts, and alloc whose
\* aligned+size >= 2^w aborts; no field is modified and neither Ok nor an error is
\* returned.
C14_OverflowAborts ==
    /\ (LastIsAddMemory /\ last.arg[2] > 0 /\ last.arg[1] + last.arg[2] >= Top) =>
           last.ret = "Abort" /\ Self = last.pre
    /\ (LastIsAlloc /\ AlignedEnd >= Top) =>
           last.ret = "Abort" /\ Self = last.pre

\* C15: alloc returns InvalidParam exactly when the request fits (aligned+size <=
\* page cursor) and the aligned address is 0, which happens only when the byte
\* cursor is 0; no field is modified.  In every other state alloc returns only Ok
\* or NoMemory (a call that panics returns nothing).
C15_InvalidParamOnlyAtZero ==
    LastIsAlloc =>
        LET aligned == LeastMultipleGE(last.pre.b_pos, last.arg[2])
            at_zero == aligned + last.arg[1] <= last.pre.p_pos /\ aligned = 0 IN
        /\ (last.ret = "InvalidParam") <=> at_zero
        /\ last.ret = "InvalidParam" => (last.pre.b_pos = 0 /\ Self = last.pre)
        /\ ~at_zero => last.ret \in {"Ok", "NoMemory", "Abort"}

Max(a, b) == IF a >= b THEN a ELSE b

\* C16: a successful add_memory whose range ends at the current start sets start to
\* the new start, leaves end and the page cursor unchanged, and sets the byte cursor
\* to max(old byte cursor, new start); one whose range begins at the current end sets
\* end and the page cursor to the new end and leaves start and the byte cursor
\* unchanged.
C16_AddMemoryFields ==
    (LastIsAddMemory /\ last.ret = "Ok") =>
        LET s == last.arg[1]
            e == last.arg[1] + last.arg[2] IN
        /\ s = last.pre.end =>
              Self = [last.pre EXCEPT !.end = e, !.p_pos = e]
        /\ (e = last.pre.start /\ s # last.pre.end) =>
              Self = [last.pre EXCEPT !.start = s, !.b_pos = Max(last.pre.b_pos, s)]

\* C16 witness: the region was extended downward while bytes were allocated.
C16_Witness ==
    /\ LastIsAddMemory /\ last.ret = "Ok"
    /\ last.arg[1] + last.arg[2] = last.pre.start /\ start = last.arg[1]
    /\ last.pre.b_pos > last.pre.start /\ b_pos = last.pre.b_pos

\* C19: the page cursor equals end in every reachable state (after new() or init,
\* through any add_memory, alloc, dealloc), so used_bytes() + available_bytes() =
\* total_bytes() whenever the accessors can be called (no panic has ended the
\* program).
C19_PageCursorIsEnd ==
    /\ p_pos = end
    /\ ~halted =>
           used_bytes(Self) + available_bytes(Self) = total_bytes(Self)

\* C19 witness: a region extended upward and downward with bytes allocated and bytes
\* free.
C19_Witness ==
    /\ init_ok /\ ~halted /\ init_args # <<>>
    /\ start < init_args[1] /\ end > init_args[1] + init_args[2]
    /\ used_bytes(Self) > 0 /\ available_bytes(Self) > 0
    /\ p_pos = end

\* C18: in any sequence of init, alloc and dealloc calls in which every dealloc is
\* proper (each block freed at most once, with its layout; zero-size blocks allowed),
\* every live block of non-zero size lies inside [start, byte cursor), so no later
\* alloc returns a range overlapping a live block.
C18_LiveBlocksBelowCursor ==
    proper =>
        \A i \in LiveIdx :
            blocks[i].size > 0 =>
                start <= blocks[i].addr /\ blocks[i].addr + blocks[i].size <= b_pos

----------------------------------------------------------------------------
(* Further properties of HashMap, checked under MapSpec. *)

\* the set of (key, value) pairs stored in a bucket array
Pairs(b) == {b[i + 1][1] : i \in Occupied(b)}

\* C17: each insert performs at most one growth, exactly when count*100 >=
\* capacity*70 on entry, whether or not the key is present; a growth exactly doubles
\* the capacity and keeps the count, the seed and the set of stored pairs; so the
\* capacity is always 16 * 2^k and never decreases.
C17_GrowthOncePerInsert ==
    /\ ncalls > 0 =>
          LET due == mlast.pre_len * 100 >= mlast.pre_cap * 70 IN
          /\ Len(buckets) = IF due THEN 2 * mlast.pre_cap ELSE mlast.pre_cap
          /\ mlast.grew <=> due
          /\ Len(buckets) >= mlast.pre_cap
    /\ LET g == grow(Map) IN
          /\ Len(g.buckets) = 2 * Len(buckets)
          /\ g.len = len /\ g.seed = seed
          /\ Pairs(g.buckets) = Pairs(buckets)
    /\ \E k \in 0..AddrBits : Len(buckets) = InitialCap * Pow2(k)

\* C17 witness: an insert that replaced the value of a present key was entered at
\* count 12 of capacity 16 and doubled the table, the count staying 12.
C17_Witness ==
    /\ ncalls > 0 /\ mlast.present
    /\ mlast.pre_len = 12 /\ mlast.pre_cap = 16
    /\ Len(buckets) = 32 /\ len = 12 /\ Cardinality(Pairs(buckets)) = 12

\* the probe-chain invariant of a bucket array b under seed s
ProbeChain(b, s) ==
    LET cap == Len(b)
        occ == Occupied(b) IN
    /\ \A i, j \in occ : i # j => b[i + 1][1][1] # b[j + 1][1][1]
    /\ \A i \in occ :
          LET home == index_for_seed(s, b[i + 1][1][1], cap) IN
          \A t \in 0..((i - home) % cap) : b[((home + t) % cap) + 1] # None

\* C20: no two occupied slots hold equal keys, and for every occupied slot i with key
\* k every slot on the cyclic path from the home index hash(seed, k) mod capacity up
\* to i is occupied; insert and grow preserve this.
C20_ProbeChainInvariant ==
    /\ ProbeChain(buckets, seed)
    /\ ProbeChain(grow(Map).buckets, seed)

\* C20 witness: a grown table in which some bucket sits before its home slot, its
\* probe path having wrapped around the end of the table, and a value was replaced.
C20_Witness ==
    /\ Len(buckets) > InitialCap /\ nupdates > 0
    /\ \E i \in Occupied(buckets) :
          index_for_seed(seed, buckets[i + 1][1][1], Len(buckets)) > i

=============================================================================
